---- MODULE Spec2Model ----
(***************************************************************************)
(* Model of hijack/cache_manager.py: ModelValidChecker, ModelCache and the *)
(* cache_model decorator.                                                  *)
(*                                                                         *)
(* Spec     : one caller; every method call is one atomic step.            *)
(* SpecConc : two threads; every statement of register_model, cached and   *)
(*            get_result is one atomic step (the granularity the           *)
(*            interpreter gives to list and dict operations).              *)
(***************************************************************************)
EXTENDS Integers, Sequences, FiniteSets

(***************************************************************************)
(* Bounds.  CACHE_MAXSIZE is 100 in the source; the model runs it at       *)
(* MaxSize so that a full store is reachable.                              *)
(***************************************************************************)
MaxSize == 2
NumKeys == 3
MaxCount == 1

CACHE_MAXSIZE == MaxSize

Keys == 1 .. NumKeys
\* a value that is no key
NoKey == NumKeys + 1

(***************************************************************************)
(* Payloads (the `result` handed to register_model) and the resource       *)
(* objects inside them.  A resource is one live object: its kind never     *)
(* changes, the number of keys it exposes does.                            *)
(***************************************************************************)
Resources == {"module", "dict", "other"}
Countable == {"module", "dict"}
Payloads == {"p_module", "p_tuple_dict", "p_other", "p_empty_tuple"}
NoPayload == "none"

IsTuple(p) == p \in {"p_tuple_dict", "p_empty_tuple"}

\* result[0] of a non-empty tuple
First(p) == "dict"

Bare(p) == IF p = "p_module" THEN "module" ELSE "other"

IsModule(r) == r = "module"
IsDict(r) == r = "dict"

VARIABLES
    valid_checker_map,  \* ModelCache.valid_checker_map: key -> checker
    lru_cache,          \* ModelCache.lru_cache: keys, least recently used first
    maxsize,            \* ModelCache.maxsize
    live,               \* current number of keys of each countable resource
    last,               \* the call that produced this state and its outcome
    inserted,           \* keys registered so far, while only fresh keys were registered
    pc,                 \* SpecConc: statement each thread is at
    loc                 \* SpecConc: each thread's locals

vars == <<valid_checker_map, lru_cache, maxsize, live, last, inserted, pc, loc>>

store == [map |-> valid_checker_map, lru |-> lru_cache]

----------------------------------------------------------------------------
(***************************************************************************)
(* ModelValidChecker                                                       *)
(***************************************************************************)

\* a count taken from nowhere for a dict
get_latest_key_count_blind(module, lv) ==
    IF IsModule(module) THEN lv[module]
    ELSE IF IsDict(module) THEN 0
    ELSE -1

\* lines 26-35
get_latest_key_count(module, lv) ==
    IF IsModule(module) THEN lv[module]
    ELSE IF IsDict(module) THEN lv[module]
    ELSE -1

\* a checker that keeps the resource in place of the whole result
ModelValidChecker_keeps_module(result, lv) ==
    LET module == IF IsTuple(result) THEN First(result) ELSE Bare(result)
    IN  [result |-> module, module |-> module,
         key_count |-> get_latest_key_count(module, lv)]

\* lines 14-18, for a payload on which result[0] is defined
ModelValidChecker(result, lv) ==
    LET module == IF IsTuple(result) THEN First(result) ELSE Bare(result)
    IN  [result |-> result, module |-> module,
         key_count |-> get_latest_key_count(module, lv)]

\* result[0] on an empty tuple
InitRaises(result) == result = "p_empty_tuple"

is_valid_always(checker, lv) == TRUE

\* lines 20-24
is_valid(checker, lv) ==
    IF checker.key_count = get_latest_key_count(checker.module, lv) THEN TRUE ELSE FALSE

----------------------------------------------------------------------------
(***************************************************************************)
(* list and dict primitives                                                *)
(***************************************************************************)

InList(x, s) == \E i \in 1 .. Len(s) : s[i] = x

FirstIndex(x, s) == CHOOSE i \in 1 .. Len(s) : s[i] = x /\ \A j \in 1 .. (i - 1) : s[j] # x

\* list.remove(x) for x in the list: drops the first occurrence
ListRemove(s, x) ==
    LET i == FirstIndex(x, s)
    IN  SubSeq(s, 1, i - 1) \o SubSeq(s, i + 1, Len(s))

\* d[k] = v
DictSet(d, k, v) == [x \in (DOMAIN d) \cup {k} |-> IF x = k THEN v ELSE d[x]]

\* del d[k] for k in d
DictDel(d, k) == [x \in (DOMAIN d) \ {k} |-> d[x]]

----------------------------------------------------------------------------
(***************************************************************************)
(* ModelCache, on a store s = [map, lru]                                   *)
(***************************************************************************)

\* lines 55-59
cached(s, model_key, lv) ==
    IF model_key \in DOMAIN s.map THEN is_valid(s.map[model_key], lv) ELSE FALSE

\* eviction only once the order is longer than maxsize
Evict_off_by_one(s, ms) ==
    IF Len(s.lru) > ms /\ Len(s.lru) > 0 /\ Head(s.lru) \in DOMAIN s.map
    THEN [map |-> DictDel(s.map, Head(s.lru)), lru |-> Tail(s.lru), raised |-> "none"]
    ELSE [map |-> s.map, lru |-> s.lru, raised |-> "none"]

\* eviction of the most recently used key: pop() in place of pop(0)
Evict_newest(s, ms) ==
    IF Len(s.lru) >= ms /\ Len(s.lru) > 0 /\ s.lru[Len(s.lru)] \in DOMAIN s.map
    THEN [map |-> DictDel(s.map, s.lru[Len(s.lru)]),
          lru |-> SubSeq(s.lru, 1, Len(s.lru) - 1), raised |-> "none"]
    ELSE [map |-> s.map, lru |-> s.lru, raised |-> "none"]

\* a full store is emptied
Evict_all(s, ms) ==
    IF Len(s.lru) >= ms /\ Len(s.lru) > 0
    THEN [map |-> <<>>, lru |-> <<>>, raised |-> "none"]
    ELSE [map |-> s.map, lru |-> s.lru, raised |-> "none"]

\* lines 74-79: pop(0) and del, with the errors they raise
Evict(s, ms) ==
    IF Len(s.lru) >= ms
    THEN IF Len(s.lru) = 0
         THEN [map |-> s.map, lru |-> s.lru, raised |-> "IndexError"]
         ELSE LET del_key == Head(s.lru)
              IN  IF del_key \in DOMAIN s.map
                  THEN [map |-> DictDel(s.map, del_key), lru |-> Tail(s.lru),
                        raised |-> "none"]
                  ELSE [map |-> s.map, lru |-> Tail(s.lru), raised |-> "KeyError"]
    ELSE [map |-> s.map, lru |-> s.lru, raised |-> "none"]

\* append without removing the old occurrence
Touch_no_remove(lru, model_key) == Append(lru, model_key)

\* lines 82-84
Touch(lru, model_key) ==
    Append(IF InList(model_key, lru) THEN ListRemove(lru, model_key) ELSE lru, model_key)

\* register_model that stores the entry first and makes room afterwards
register_model_insert_first(s, ms, model_key, result, lv) ==
    IF InitRaises(result)
    THEN [map |-> s.map, lru |-> s.lru, raised |-> "IndexError"]
    ELSE Evict([map |-> DictSet(s.map, model_key, ModelValidChecker(result, lv)),
                lru |-> Touch(s.lru, model_key)], ms)

\* lines 74-84
register_model(s, ms, model_key, result, lv) ==
    LET e == Evict(s, ms)
    IN  IF e.raised # "none" THEN e
        ELSE IF InitRaises(result)
        THEN [map |-> e.map, lru |-> e.lru, raised |-> "IndexError"]
        ELSE [map |-> DictSet(e.map, model_key, ModelValidChecker(result, lv)),
              lru |-> Touch(e.lru, model_key),
              raised |-> "none"]

\* get_result without the update of the order
get_result_no_touch(s, model_key) ==
    IF model_key \in DOMAIN s.map
    THEN [map |-> s.map, lru |-> s.lru, raised |-> "none", ret |-> s.map[model_key].result]
    ELSE [map |-> s.map, lru |-> s.lru, raised |-> "KeyError", ret |-> NoPayload]

\* get_result that appends before it looks the key up
get_result_append_first(s, model_key) ==
    LET l == Touch(s.lru, model_key)
    IN  IF model_key \in DOMAIN s.map
        THEN [map |-> s.map, lru |-> l, raised |-> "none", ret |-> s.map[model_key].result]
        ELSE [map |-> s.map, lru |-> l, raised |-> "KeyError", ret |-> NoPayload]

\* lines 86-92
get_result(s, model_key) ==
    IF ~InList(model_key, s.lru)
    THEN [map |-> s.map, lru |-> s.lru, raised |-> "ValueError", ret |-> NoPayload]
    ELSE LET l == Append(ListRemove(s.lru, model_key), model_key)
         IN  IF model_key \in DOMAIN s.map
             THEN [map |-> s.map, lru |-> l, raised |-> "none",
                   ret |-> s.map[model_key].result]
             ELSE [map |-> s.map, lru |-> l, raised |-> "KeyError", ret |-> NoPayload]

\* wrapper that calls func and registers its result whatever cached says
wrapper_always_builds(s, ms, model_key, func_result, lv) ==
    LET r == register_model(s, ms, model_key, func_result, lv)
    IN  [map |-> r.map, lru |-> r.lru, raised |-> r.raised,
         ret |-> IF r.raised = "none" THEN func_result ELSE NoPayload,
         hit |-> FALSE]

\* lines 95-102; func_result is what func(*args, **kwargs) returns if it is called
wrapper(s, ms, model_key, func_result, lv) ==
    IF cached(s, model_key, lv)
    THEN LET g == get_result(s, model_key)
         IN  [map |-> g.map, lru |-> g.lru, raised |-> g.raised, ret |-> g.ret,
              hit |-> TRUE]
    ELSE LET r == register_model(s, ms, model_key, func_result, lv)
         IN  [map |-> r.map, lru |-> r.lru, raised |-> r.raised,
              ret |-> IF r.raised = "none" THEN func_result ELSE NoPayload,
              hit |-> FALSE]

----------------------------------------------------------------------------
(***************************************************************************)
(* Bookkeeping that is not program state                                   *)
(***************************************************************************)

\* promoted: the key a get_result moved from the front of a full order to its
\* back, in this call (get_result) or in the call just before it (register_model)
Call(op, k, p, raised, rb, rp, hit, promoted) ==
    [op |-> op, key |-> k, payload |-> p, raised |-> raised,
     ret_bool |-> rb, ret_payload |-> rp, hit |-> hit, promoted |-> promoted,
     note |-> "none"]

\* note: "own_lru" on a register_model of the key that was first in a full
\* order, "revalidated" on a mutation after which a stored entry that was
\* invalid is valid
Noted(call, note) ==
    [op |-> call.op, key |-> call.key, payload |-> call.payload, raised |-> call.raised,
     ret_bool |-> call.ret_bool, ret_payload |-> call.ret_payload, hit |-> call.hit,
     promoted |-> call.promoted, note |-> note]

Untracked == [ok |-> FALSE, keys |-> <<>>]

\* the keys registered since construction, kept while every call that touched
\* the order was a successful register_model of a key not registered before
Logged(log, k, raised, ms) ==
    IF log.ok /\ raised = "none" /\ ~InList(k, log.keys) /\ Len(log.keys) <= ms
    THEN [ok |-> TRUE, keys |-> Append(log.keys, k)]
    ELSE Untracked

Threads == {1, 2}
NoLocals == [op |-> "none", key |-> NoKey, payload |-> NoPayload, del_key |-> NoKey,
             raised |-> "none", ret_bool |-> FALSE, ret_payload |-> NoPayload,
             listed |-> FALSE]

----------------------------------------------------------------------------
(***************************************************************************)
(* Spec: sequential calls                                                  *)
(***************************************************************************)

\* lines 45-48, and the resources as the runtime holds them
Init ==
    /\ valid_checker_map = <<>>
    /\ lru_cache = <<>>
    /\ maxsize = CACHE_MAXSIZE
    /\ live \in [Countable -> 0 .. MaxCount]
    /\ last = Call("init", NoKey, NoPayload, "none", FALSE, NoPayload, FALSE, NoKey)
    /\ inserted = [ok |-> TRUE, keys |-> <<>>]
    /\ pc = [t \in Threads |-> "idle"]
    /\ loc = [t \in Threads |-> NoLocals]

Quiescent == \A t \in Threads : pc[t] = "idle"

RegisterModel(k, p) ==
    /\ Quiescent
    /\ \E r \in {register_model(store, maxsize, k, p, live)} :
           /\ valid_checker_map' = r.map
           /\ lru_cache' = r.lru
           /\ last' = Noted(Call("register_model", k, p, r.raised, FALSE, NoPayload, FALSE,
                                 IF last.op = "get_result" THEN last.promoted ELSE NoKey),
                            IF Len(lru_cache) >= maxsize /\ Len(lru_cache) > 0
                               /\ Head(lru_cache) = k
                            THEN "own_lru" ELSE "none")
           /\ inserted' = Logged(inserted, k, r.raised, maxsize)
    /\ UNCHANGED <<maxsize, live, pc, loc>>

\* cached that takes a new count of an entry it finds invalid
CachedRefreshing(k) ==
    /\ Quiescent
    /\ last' = Call("cached", k, NoPayload, "none", cached(store, k, live), NoPayload,
                    FALSE, NoKey)
    /\ valid_checker_map' =
           IF k \in DOMAIN valid_checker_map /\ ~cached(store, k, live)
           THEN DictSet(valid_checker_map, k,
                        ModelValidChecker(valid_checker_map[k].result, live))
           ELSE valid_checker_map
    /\ UNCHANGED <<lru_cache, maxsize, live, inserted, pc, loc>>

\* cached that drops an entry it finds invalid
CachedPurging(k) ==
    /\ Quiescent
    /\ last' = Call("cached", k, NoPayload, "none", cached(store, k, live), NoPayload,
                    FALSE, NoKey)
    /\ IF k \in DOMAIN valid_checker_map /\ ~cached(store, k, live)
       THEN /\ valid_checker_map' = DictDel(valid_checker_map, k)
            /\ lru_cache' = IF InList(k, lru_cache) THEN ListRemove(lru_cache, k)
                            ELSE lru_cache
       ELSE UNCHANGED <<valid_checker_map, lru_cache>>
    /\ UNCHANGED <<maxsize, live, inserted, pc, loc>>

Cached(k) ==
    /\ Quiescent
    /\ last' = Call("cached", k, NoPayload, "none", cached(store, k, live), NoPayload,
                    FALSE, NoKey)
    /\ UNCHANGED <<valid_checker_map, lru_cache, maxsize, live, inserted, pc, loc>>

\* get_result that takes a new count of the entry it returns
GetResult_refresh(k) ==
    /\ Quiescent
    /\ \E g \in {get_result(store, k)} :
           /\ valid_checker_map' =
                  IF g.raised = "none"
                  THEN DictSet(g.map, k, ModelValidChecker(g.map[k].result, live))
                  ELSE g.map
           /\ lru_cache' = g.lru
           /\ last' = Call("get_result", k, NoPayload, g.raised, FALSE, g.ret, FALSE,
                           IF g.raised = "none" /\ Len(lru_cache) >= maxsize
                              /\ Head(lru_cache) = k
                           THEN k ELSE NoKey)
           /\ inserted' = IF g.raised = "ValueError" THEN inserted ELSE Untracked
    /\ UNCHANGED <<maxsize, live, pc, loc>>

GetResult(k) ==
    /\ Quiescent
    /\ \E g \in {get_result(store, k)} :
           /\ valid_checker_map' = g.map
           /\ lru_cache' = g.lru
           /\ last' = Call("get_result", k, NoPayload, g.raised, FALSE, g.ret, FALSE,
                           IF g.raised = "none" /\ Len(lru_cache) >= maxsize
                              /\ Head(lru_cache) = k
                           THEN k ELSE NoKey)
           /\ inserted' = IF g.raised = "ValueError" THEN inserted ELSE Untracked
    /\ UNCHANGED <<maxsize, live, pc, loc>>

Wrapper(k, p) ==
    /\ Quiescent
    /\ \E w \in {wrapper(store, maxsize, k, p, live)} :
           /\ valid_checker_map' = w.map
           /\ lru_cache' = w.lru
           /\ last' = Call("wrapper", k, IF w.hit THEN NoPayload ELSE p, w.raised,
                           FALSE, w.ret, w.hit, NoKey)
           /\ inserted' = IF w.hit THEN Untracked
                          ELSE Logged(inserted, k, w.raised, maxsize)
    /\ UNCHANGED <<maxsize, live, pc, loc>>

\* the runtime that owns a resource loads or releases some of its tensors / keys
Mutate(r, n) ==
    /\ Quiescent
    /\ n # live[r]
    /\ live' = [live EXCEPT ![r] = n]
    /\ last' = Noted(Call("mutate", NoKey, NoPayload, "none", FALSE, NoPayload, FALSE,
                          NoKey),
                     IF \E k \in DOMAIN valid_checker_map :
                            /\ ~cached(store, k, live)
                            /\ cached(store, k, [live EXCEPT ![r] = n])
                     THEN "revalidated" ELSE "none")
    /\ UNCHANGED <<valid_checker_map, lru_cache, maxsize, inserted, pc, loc>>

Next ==
    \/ \E k \in Keys, p \in Payloads : RegisterModel(k, p)
    \/ \E k \in Keys : Cached(k)
    \/ \E k \in Keys : GetResult(k)
    \/ \E k \in Keys, p \in Payloads : Wrapper(k, p)
    \/ \E r \in Countable, n \in 0 .. MaxCount : Mutate(r, n)

Spec == Init /\ [][Next]_vars

(***************************************************************************)
(* SpecCap: the same calls on a store built with CACHE_MAXSIZE set to any  *)
(* value from 0 up; __init__ copies the value without looking at it.       *)
(***************************************************************************)
ConfiguredSizes == 0 .. CACHE_MAXSIZE

\* lines 45-48 with CACHE_MAXSIZE = c
InitCap ==
    /\ valid_checker_map = <<>>
    /\ lru_cache = <<>>
    /\ maxsize \in ConfiguredSizes
    /\ live \in [Countable -> 0 .. MaxCount]
    /\ last = Call("init", NoKey, NoPayload, "none", FALSE, NoPayload, FALSE, NoKey)
    /\ inserted = [ok |-> TRUE, keys |-> <<>>]
    /\ pc = [t \in Threads |-> "idle"]
    /\ loc = [t \in Threads |-> NoLocals]

SpecCap == InitCap /\ [][Next]_vars

TypeOK ==
    /\ DOMAIN valid_checker_map \subseteq Keys
    /\ \A k \in DOMAIN valid_checker_map :
          /\ valid_checker_map[k].result \in Payloads \ {"p_empty_tuple"}
          /\ valid_checker_map[k].module \in Resources
          /\ valid_checker_map[k].key_count \in -1 .. MaxCount
    /\ lru_cache \in Seq(Keys)
    /\ live \in [Countable -> 0 .. MaxCount]

----------------------------------------------------------------------------
(***************************************************************************)
(* SpecConc: two threads call into the one ModelCache with no lock.  Each  *)
(* step is one statement of the source; a thread's call ends by returning  *)
(* or by raising, and its outcome stays in loc[t] until its next call.     *)
(* The resources are not mutated here, so building the checker and storing *)
(* it (line 81) read nothing another step can change in between.           *)
(***************************************************************************)

ConcPayloads == {"p_module", "p_empty_tuple"}

InitConc ==
    /\ Init
    /\ live = [r \in Countable |-> MaxCount]

Goto(t, label) == pc' = [pc EXCEPT ![t] = label]

\* the call is over: its arguments and temporaries are gone, its outcome is kept
Raise(t, exc) ==
    /\ pc' = [pc EXCEPT ![t] = "idle"]
    /\ loc' = [loc EXCEPT ![t].raised = exc, ![t].payload = NoPayload,
                          ![t].del_key = NoKey, ![t].listed = FALSE]

Return(t, payload) ==
    /\ pc' = [pc EXCEPT ![t] = "idle"]
    /\ loc' = [loc EXCEPT ![t].ret_payload = payload, ![t].payload = NoPayload,
                          ![t].del_key = NoKey, ![t].listed = FALSE]

Locals(op, k, p) ==
    [op |-> op, key |-> k, payload |-> p, del_key |-> NoKey, raised |-> "none",
     ret_bool |-> FALSE, ret_payload |-> NoPayload, listed |-> FALSE]

\* a thread enters register_model, cached, get_result or the wrapper
T_call(t, op, k, p) ==
    /\ pc[t] = "idle"
    /\ (op \in {"register_model", "wrapper"}) <=> (p # NoPayload)
    /\ loc' = [loc EXCEPT ![t] = Locals(op, k, p)]
    /\ Goto(t, CASE op = "register_model" -> "reg_74"
                 [] op = "cached" -> "cached_56"
                 [] op = "get_result" -> "get_89"
                 [] OTHER -> "wrap_97")
    /\ UNCHANGED <<valid_checker_map, lru_cache, maxsize, live, last, inserted>>

\* line 74
T_reg_74(t) ==
    /\ pc[t] = "reg_74"
    /\ Goto(t, IF Len(lru_cache) >= maxsize THEN "reg_76" ELSE "reg_81")
    /\ UNCHANGED <<valid_checker_map, lru_cache, maxsize, live, last, inserted, loc>>

\* line 76
T_reg_76(t) ==
    /\ pc[t] = "reg_76"
    /\ IF Len(lru_cache) = 0
       THEN Raise(t, "IndexError") /\ UNCHANGED lru_cache
       ELSE /\ lru_cache' = Tail(lru_cache)
            /\ loc' = [loc EXCEPT ![t].del_key = Head(lru_cache)]
            /\ Goto(t, "reg_77")
    /\ UNCHANGED <<valid_checker_map, maxsize, live, last, inserted>>

\* lines 77-79
T_reg_77(t) ==
    /\ pc[t] = "reg_77"
    /\ IF loc[t].del_key \in DOMAIN valid_checker_map
       THEN /\ valid_checker_map' = DictDel(valid_checker_map, loc[t].del_key)
            /\ Goto(t, "reg_81")
            /\ UNCHANGED loc
       ELSE Raise(t, "KeyError") /\ UNCHANGED valid_checker_map
    /\ UNCHANGED <<lru_cache, maxsize, live, last, inserted>>

\* line 81
T_reg_81(t) ==
    /\ pc[t] = "reg_81"
    /\ IF InitRaises(loc[t].payload)
       THEN Raise(t, "IndexError") /\ UNCHANGED valid_checker_map
       ELSE /\ valid_checker_map' =
                 DictSet(valid_checker_map, loc[t].key,
                         ModelValidChecker(loc[t].payload, live))
            /\ Goto(t, "reg_82")
            /\ UNCHANGED loc
    /\ UNCHANGED <<lru_cache, maxsize, live, last, inserted>>

\* line 82
T_reg_82(t) ==
    /\ pc[t] = "reg_82"
    /\ Goto(t, IF InList(loc[t].key, lru_cache) THEN "reg_83" ELSE "reg_84")
    /\ UNCHANGED <<valid_checker_map, lru_cache, maxsize, live, last, inserted, loc>>

\* line 83
T_reg_83(t) ==
    /\ pc[t] = "reg_83"
    /\ IF InList(loc[t].key, lru_cache)
       THEN /\ lru_cache' = ListRemove(lru_cache, loc[t].key)
            /\ Goto(t, "reg_84")
            /\ UNCHANGED loc
       ELSE Raise(t, "ValueError") /\ UNCHANGED lru_cache
    /\ UNCHANGED <<valid_checker_map, maxsize, live, last, inserted>>

\* line 84, and line 102 when the wrapper made the call
T_reg_84(t) ==
    /\ pc[t] = "reg_84"
    /\ lru_cache' = Append(lru_cache, loc[t].key)
    /\ Return(t, IF loc[t].op = "wrapper" THEN loc[t].payload ELSE NoPayload)
    /\ UNCHANGED <<valid_checker_map, maxsize, live, last, inserted>>

\* line 89
T_get_89(t) ==
    /\ pc[t] = "get_89"
    /\ IF InList(loc[t].key, lru_cache)
       THEN /\ lru_cache' = ListRemove(lru_cache, loc[t].key)
            /\ Goto(t, "get_90")
            /\ UNCHANGED loc
       ELSE Raise(t, "ValueError") /\ UNCHANGED lru_cache
    /\ UNCHANGED <<valid_checker_map, maxsize, live, last, inserted>>

\* line 90
T_get_90(t) ==
    /\ pc[t] = "get_90"
    /\ lru_cache' = Append(lru_cache, loc[t].key)
    /\ Goto(t, "get_92")
    /\ UNCHANGED <<valid_checker_map, maxsize, live, last, inserted, loc>>

\* line 92, and line 98 when the wrapper made the call
T_get_92(t) ==
    /\ pc[t] = "get_92"
    /\ IF loc[t].key \in DOMAIN valid_checker_map
       THEN Return(t, valid_checker_map[loc[t].key].result)
       ELSE Raise(t, "KeyError")
    /\ UNCHANGED <<valid_checker_map, lru_cache, maxsize, live, last, inserted>>

\* lines 56-59
T_cached_56(t) ==
    /\ pc[t] = "cached_56"
    /\ pc' = [pc EXCEPT ![t] = "idle"]
    /\ loc' = [loc EXCEPT ![t].ret_bool = cached(store, loc[t].key, live)]
    /\ UNCHANGED <<valid_checker_map, lru_cache, maxsize, live, last, inserted>>

\* lines 97-100: the wrapper's cached() and the branch on it; func() is called on
\* a miss and has returned loc[t].payload.  listed is bookkeeping: the key was
\* in lru_cache when cached() returned True
T_wrap_97(t) ==
    /\ pc[t] = "wrap_97"
    /\ loc' = [loc EXCEPT ![t].ret_bool = cached(store, loc[t].key, live),
                          ![t].listed = /\ cached(store, loc[t].key, live)
                                        /\ InList(loc[t].key, lru_cache)]
    /\ Goto(t, IF cached(store, loc[t].key, live) THEN "get_89" ELSE "reg_74")
    /\ UNCHANGED <<valid_checker_map, lru_cache, maxsize, live, last, inserted>>

NextConc ==
    \E t \in Threads :
        \/ \E k \in Keys, p \in ConcPayloads : T_call(t, "register_model", k, p)
        \/ \E k \in Keys : T_call(t, "cached", k, NoPayload)
        \/ \E k \in Keys : T_call(t, "get_result", k, NoPayload)
        \/ \E k \in Keys, p \in ConcPayloads : T_call(t, "wrapper", k, p)
        \/ T_reg_74(t)
        \/ T_reg_76(t)
        \/ T_reg_77(t)
        \/ T_reg_81(t)
        \/ T_reg_82(t)
        \/ T_reg_83(t)
        \/ T_reg_84(t)
        \/ T_get_89(t)
        \/ T_get_90(t)
        \/ T_get_92(t)
        \/ T_cached_56(t)
        \/ T_wrap_97(t)

SpecConc == InitConc /\ [][NextConc]_vars

----------------------------------------------------------------------------
(***************************************************************************)
(* Properties, sequential calls                                            *)
(***************************************************************************)

Present(k) == k \in DOMAIN valid_checker_map
KeySet(l) == {l[i] : i \in 1 .. Len(l)}
NoDuplicates(l) == \A i, j \in 1 .. Len(l) : l[i] = l[j] => i = j
Unsupported(r) == ~IsModule(r) /\ ~IsDict(r)
ResourceOf(p) == IF IsTuple(p) THEN First(p) ELSE Bare(p)

\* C1: registering a payload whose resource is neither a Module nor a dict does
\* not raise, and every cached(k) on that stored entry returns False.
C1_UnsupportedNeverCached ==
    /\ (last.op = "register_model" /\ last.payload = "p_other" => last.raised = "none")
    /\ (last.op = "cached" /\ Present(last.key)
          /\ Unsupported(valid_checker_map[last.key].module)
        => last.ret_bool = FALSE)

\* C2: register_model(k, p) on a key already present leaves the key set of
\* valid_checker_map unchanged, stores p under k and leaves k last in lru_cache.
C2_OverwriteKeepsKeys ==
    [][(last'.op = "register_model" /\ last'.raised = "none" /\ Present(last'.key))
       => /\ DOMAIN valid_checker_map' = DOMAIN valid_checker_map
          /\ valid_checker_map'[last'.key].result = last'.payload
          /\ lru_cache'[Len(lru_cache')] = last'.key]_vars

\* C3: a payload the wrapper returns from its hit path belongs to an entry whose
\* key count derived now equals the key count stored at registration.
C3_NoFalsePositive ==
    (last.op = "wrapper" /\ last.hit)
    => /\ last.raised = "none"
       /\ Present(last.key)
       /\ last.ret_payload = valid_checker_map[last.key].result
       /\ get_latest_key_count(valid_checker_map[last.key].module, live)
            = valid_checker_map[last.key].key_count

\* a hit on a countable resource whose count is not the only one it ever had
C3_Witness ==
    /\ last.op = "wrapper" /\ last.hit
    /\ valid_checker_map[last.key].module \in Countable
    /\ \E k \in DOMAIN valid_checker_map :
          /\ valid_checker_map[k].module = valid_checker_map[last.key].module
          /\ valid_checker_map[k].key_count # valid_checker_map[last.key].key_count

\* C4: after every call the number of keys of valid_checker_map equals the
\* length of lru_cache, and both are at most maxsize.
C4_SizeInvariant ==
    /\ Cardinality(DOMAIN valid_checker_map) = Len(lru_cache)
    /\ Len(lru_cache) <= maxsize

\* a full store right after a register_model that had to evict
C4_Witness ==
    /\ last.op = "register_model" /\ last.raised = "none"
    /\ Len(lru_cache) = maxsize
    /\ inserted.ok /\ Len(inserted.keys) = maxsize + 1

\* C5: the keys in lru_cache are exactly the keys of valid_checker_map, and no
\* key is in lru_cache twice.
C5_IndexAgreement ==
    /\ KeySet(lru_cache) = DOMAIN valid_checker_map
    /\ NoDuplicates(lru_cache)

\* a key registered again while other keys are stored
C5_Witness ==
    /\ last.op = "register_model" /\ last.raised = "none"
    /\ ~inserted.ok
    /\ Len(lru_cache) = maxsize
    /\ Present(last.key)

\* C7: cached(k) right after register_model(k, payload) of a mapping with N keys
\* returns True; cached(k) while the live mapping has fewer than N keys returns
\* False.
C7_ValidityGating ==
    [][/\ (last.op = "register_model" /\ last.raised = "none"
            /\ IsDict(ResourceOf(last.payload))
            /\ last'.op = "cached" /\ last'.key = last.key)
          => last'.ret_bool = TRUE
       /\ (last'.op = "register_model" /\ last'.raised = "none"
            /\ IsDict(ResourceOf(last'.payload)))
          => valid_checker_map'[last'.key].key_count = live["dict"]
       /\ (last'.op = "cached" /\ Present(last'.key)
            /\ IsDict(valid_checker_map[last'.key].module)
            /\ live["dict"] < valid_checker_map[last'.key].key_count)
          => last'.ret_bool = FALSE]_vars

\* cached answered False for a stored mapping that lost keys
C7_Witness ==
    /\ last.op = "cached" /\ last.ret_bool = FALSE
    /\ Present(last.key)
    /\ IsDict(valid_checker_map[last.key].module)
    /\ live["dict"] < valid_checker_map[last.key].key_count

\* C8: get_result(k) on a present key makes k the last element of lru_cache;
\* if k was the first element of a full order, the next register_model of a new
\* key evicts the key that followed k, and k stays.
C8_RecencyPromotion ==
    [][/\ (last'.op = "get_result" /\ last'.raised = "none")
          => /\ lru_cache'[Len(lru_cache')] = last'.key
             /\ KeySet(lru_cache') = KeySet(lru_cache)
             /\ DOMAIN valid_checker_map' = DOMAIN valid_checker_map
       /\ (last.op = "get_result" /\ last.raised = "none" /\ maxsize >= 2
            /\ Len(lru_cache) >= maxsize
            /\ last'.op = "register_model" /\ last'.raised = "none"
            /\ ~Present(last'.key))
          => /\ last.key \in DOMAIN valid_checker_map'
             /\ DOMAIN valid_checker_map'
                  = (DOMAIN valid_checker_map \ {Head(lru_cache)}) \cup {last'.key}
             /\ Head(lru_cache) # last.key]_vars

\* the promoted key survived the register_model of a new key into a full store
C8_Witness ==
    /\ last.op = "register_model" /\ last.raised = "none"
    /\ last.promoted # NoKey /\ last.promoted # last.key
    /\ Present(last.promoted)
    /\ Len(lru_cache) = maxsize

\* C9: registering maxsize+1 distinct keys into an empty store, with no
\* get_result in between, leaves exactly the last maxsize of them, in
\* registration order.
C9_LRUCorrectness ==
    inserted.ok
    => IF Len(inserted.keys) <= maxsize
       THEN lru_cache = inserted.keys /\ DOMAIN valid_checker_map = KeySet(inserted.keys)
       ELSE /\ lru_cache = Tail(inserted.keys)
            /\ DOMAIN valid_checker_map = KeySet(Tail(inserted.keys))
            /\ ~Present(Head(inserted.keys))

C9_Witness ==
    /\ inserted.ok
    /\ Len(inserted.keys) = maxsize + 1
    /\ last.op \in {"cached", "mutate"}

\* C10: cached(k) leaves valid_checker_map and lru_cache as they were, whatever
\* it returns; an entry it finds invalid stays in both.
C10_CachedReadOnly ==
    [][last'.op = "cached"
       => /\ valid_checker_map' = valid_checker_map
          /\ lru_cache' = lru_cache
          /\ (Present(last'.key) /\ ~last'.ret_bool
               => last'.key \in DOMAIN valid_checker_map'
                  /\ InList(last'.key, lru_cache'))]_vars

\* cached answered False for an entry that is still stored
C10_Witness ==
    /\ last.op = "cached" /\ last.ret_bool = FALSE
    /\ Present(last.key) /\ InList(last.key, lru_cache)
    /\ Len(lru_cache) = maxsize

\* C11: get_result(k) for a key that is not in valid_checker_map raises, returns
\* no payload, and leaves valid_checker_map and lru_cache as they were.
C11_RetrieveAbsentFails ==
    [][(last'.op = "get_result" /\ ~Present(last'.key))
       => /\ last'.raised # "none"
          /\ last'.ret_payload = NoPayload
          /\ valid_checker_map' = valid_checker_map
          /\ lru_cache' = lru_cache]_vars

\* get_result of an absent key raised on a full store
C11_Witness ==
    /\ last.op = "get_result" /\ last.raised = "ValueError"
    /\ ~Present(last.key)
    /\ Len(lru_cache) = maxsize

RegistersKey(call, k) ==
    /\ call.raised = "none" /\ call.key = k
    /\ \/ call.op = "register_model"
       \/ call.op = "wrapper" /\ ~call.hit

\* C12: get_result(k) on a present key returns the payload handed to the most
\* recent register_model(k, .): a registration stores the payload it was given,
\* no other step changes the stored payload, and get_result returns the stored
\* payload, whatever happened to the resource since.
C12_RetrieveReturnsRegistered ==
    [][/\ \A k \in Keys : RegistersKey(last', k)
            => k \in DOMAIN valid_checker_map'
               /\ valid_checker_map'[k].result = last'.payload
       /\ \A k \in DOMAIN valid_checker_map :
            (k \in DOMAIN valid_checker_map' /\ ~RegistersKey(last', k))
            => valid_checker_map'[k].result = valid_checker_map[k].result
       /\ ((last'.op = "get_result" \/ (last'.op = "wrapper" /\ last'.hit))
            /\ Present(last'.key))
          => /\ last'.raised = "none"
             /\ last'.ret_payload = valid_checker_map[last'.key].result]_vars

\* get_result returned a tuple payload whose dict changed after registration
C12_Witness ==
    /\ last.op = "get_result" /\ last.raised = "none"
    /\ last.ret_payload = "p_tuple_dict"
    /\ valid_checker_map[last.key].key_count # live["dict"]

Removed == DOMAIN valid_checker_map \ DOMAIN valid_checker_map'

\* C14: one register_model call (made directly or by the wrapper on a miss)
\* removes at most one key from valid_checker_map, and a key it removes is the
\* first element lru_cache had before the call, valid or not.
C14_OneInOneOut ==
    [][(last'.op = "register_model" \/ (last'.op = "wrapper" /\ ~last'.hit))
       => /\ Cardinality(Removed) <= 1
          /\ \A k \in Removed : Len(lru_cache) > 0 /\ k = Head(lru_cache)]_vars

\* a register_model has just evicted the first key of a full order of two or
\* more keys, and the entry it left in front is invalid
C14_Witness ==
    /\ last.op = "register_model" /\ last.raised = "none"
    /\ inserted.ok /\ Len(inserted.keys) = maxsize + 1
    /\ maxsize >= 2
    /\ ~Present(inserted.keys[1])
    /\ Present(lru_cache[1]) /\ ~cached(store, lru_cache[1], live)

\* key k is stored and invalid before the step, stored and valid after it
Revalidated(k) ==
    /\ Present(k) /\ ~cached(store, k, live)
    /\ k \in DOMAIN valid_checker_map'
    /\ cached([map |-> valid_checker_map', lru |-> lru_cache'], k, live')

\* C15, as stated: a stored entry that is invalid becomes valid again only by
\* a new register_model of its key; no mutation of the resource, cached call or
\* get_result call does it.
C15_OnlyReinsertRevalidates ==
    [][\A k \in Keys : Revalidated(k) => RegistersKey(last', k)]_vars

\* C15, amended: a stored entry that is invalid becomes valid again only by a
\* new register_model of its key or by a mutation that brings the live key
\* count of its resource back to the stored count; a cached call, a get_result
\* call and a wrapper hit leave the validity of every stored entry as it was.
C15_ReinsertOrRestoredCount ==
    [][/\ \A k \in Keys :
            Revalidated(k)
            => \/ RegistersKey(last', k)
               \/ /\ last'.op = "mutate"
                  /\ valid_checker_map'[k] = valid_checker_map[k]
                  /\ live'[valid_checker_map[k].module] = valid_checker_map[k].key_count
       /\ (last'.op \in {"cached", "get_result"} \/ (last'.op = "wrapper" /\ last'.hit))
          => \A k \in DOMAIN valid_checker_map :
                /\ k \in DOMAIN valid_checker_map'
                /\ cached([map |-> valid_checker_map', lru |-> lru_cache'], k, live')
                   = cached(store, k, live)]_vars

\* a mutation has just made an invalid stored entry valid again
C15_Witness ==
    /\ last.op = "mutate" /\ last.note = "revalidated"
    /\ \E k \in DOMAIN valid_checker_map :
          /\ valid_checker_map[k].module \in Countable
          /\ cached(store, k, live)

\* C16: a wrapper call calls func exactly when cached(key) is false at its
\* start. On a miss its whole effect on the store is that of one
\* register_model(key, result), and it returns result (it raises what
\* register_model raises when that call fails). On a hit it calls neither func
\* nor register_model: its effect and its return value are those of
\* get_result(key).
C16_WrapperProtocol ==
    [][last'.op = "wrapper"
       => /\ last'.hit = cached(store, last'.key, live)
          /\ (last'.payload # NoPayload) = ~cached(store, last'.key, live)
          /\ cached(store, last'.key, live)
             => \E g \in {get_result(store, last'.key)} :
                   /\ valid_checker_map' = g.map /\ lru_cache' = g.lru
                   /\ last'.raised = g.raised /\ last'.ret_payload = g.ret
          /\ ~cached(store, last'.key, live)
             => \E r \in {register_model(store, maxsize, last'.key, last'.payload, live)} :
                   /\ valid_checker_map' = r.map /\ lru_cache' = r.lru
                   /\ last'.raised = r.raised
                   /\ r.raised = "none" => last'.ret_payload = last'.payload]_vars

\* a wrapper call on a full store, after calls other than fresh registrations,
\* has just missed, registered what func built and returned it
C16_Witness ==
    /\ last.op = "wrapper" /\ ~last.hit /\ last.raised = "none"
    /\ last.ret_payload = "p_module"
    /\ ~inserted.ok /\ Len(lru_cache) = maxsize
    /\ valid_checker_map[last.key].key_count = live["module"]

\* C17: the key_count of an entry is the count its resource had when
\* register_model created the entry, and it keeps that value in every later
\* state in which the entry is stored, until a register_model of the same key
\* replaces the entry; cached, get_result and mutations never change it.
C17_SignatureFixed ==
    [][/\ \A k \in DOMAIN valid_checker_map \cap DOMAIN valid_checker_map' :
            valid_checker_map'[k].key_count # valid_checker_map[k].key_count
            => RegistersKey(last', k)
       /\ \A k \in DOMAIN valid_checker_map' :
            RegistersKey(last', k)
            => valid_checker_map'[k].key_count
               = get_latest_key_count(valid_checker_map'[k].module, live)]_vars

\* cached has just found an entry whose stored count is no longer the live
\* count of its resource: the count was not refreshed by the mutation
C17_Witness ==
    /\ last.op = "cached" /\ ~last.ret_bool /\ Present(last.key)
    /\ valid_checker_map[last.key].module = "module"
    /\ valid_checker_map[last.key].key_count # live["module"]
    /\ lru_cache[Len(lru_cache)] = last.key

\* C13: a store with maxsize below 1 does not exist: construction fails, so no
\* register_model is ever accepted by one.
C13_CapacityRejected ==
    /\ maxsize >= 1
    /\ (last.op \in {"register_model", "wrapper"} /\ last.raised = "none") => maxsize >= 1

\* C19: after a register_model(k, p) that completes, made directly or by the
\* wrapper on a miss, on a store of any capacity from 1 up and whatever the
\* store held before, k is in valid_checker_map with result p and k is the last
\* element of lru_cache.
C19_InsertedKeySurvives ==
    (last.raised = "none"
     /\ (last.op = "register_model" \/ (last.op = "wrapper" /\ ~last.hit)))
    => /\ maxsize >= 1
       /\ Present(last.key)
       /\ valid_checker_map[last.key].result = last.payload
       /\ Len(lru_cache) >= 1
       /\ lru_cache[Len(lru_cache)] = last.key

\* register_model of the key that was first in a full order of two keys
C19_Witness ==
    /\ last.op = "register_model" /\ last.raised = "none" /\ last.note = "own_lru"
    /\ maxsize = CACHE_MAXSIZE /\ Len(lru_cache) = maxsize
    /\ NoDuplicates(lru_cache)

----------------------------------------------------------------------------
(***************************************************************************)
(* Properties, two threads                                                *)
(***************************************************************************)

SameKey == loc[1].key = loc[2].key /\ loc[1].key # NoKey

\* C6: once two threads' calls on the same key have both completed,
\* lru_cache and valid_checker_map agree: same keys, no key twice, same size.
C6_ConcurrentIndexesInSync ==
    (Quiescent /\ SameKey)
    => /\ KeySet(lru_cache) = DOMAIN valid_checker_map
       /\ NoDuplicates(lru_cache)
       /\ Cardinality(DOMAIN valid_checker_map) = Len(lru_cache)

\* thread t, in a wrapper call whose cached(k) returned True with k stored and
\* listed, takes the step at which its get_result(k) raises for a missing key
RetrieveFails(t) ==
    /\ loc[t].op = "wrapper" /\ loc[t].ret_bool /\ loc[t].listed
    /\ pc[t] \in {"get_89", "get_92"} /\ pc'[t] = "idle"
    /\ loc'[t].raised \in {"ValueError", "KeyError"}

\* thread u is in a wrapper call on another key that missed, and its
\* register_model has popped k from lru_cache
EvictedBy(u, k) ==
    /\ loc[u].op = "wrapper" /\ ~loc[u].ret_bool
    /\ loc[u].key # k /\ loc[u].del_key = k

\* C18: with two threads in the wrapper, a thread whose cached(k) returned
\* True does not have its get_result(k) fail on a missing key because the other
\* thread's register_model evicted k between the check and the retrieve.
C18_CheckThenAct ==
    [][\A t \in Threads : \A u \in Threads \ {t} :
          RetrieveFails(t) => ~EvictedBy(u, loc[t].key)]_vars

====
